---- MODULE Spec2Model ----
(***************************************************************************)
(* Vendor Voice: the ratings table, its constraints and row-level security *)
(* policies, the update_vendor_rating trigger that maintains the vendor    *)
(* aggregates, and the rating form of the Ratings page.                    *)
(*                                                                         *)
(* Every action is one database statement (one transaction: constraint     *)
(* checks, row-level security and AFTER ROW triggers included) or one step *)
(* of a page handler between two awaits.                                   *)
(*                                                                         *)
(* The reviewer column of ratings is called customer_id in the schema with *)
(* the aggregate trigger and reviewer_id in the other schema and in the    *)
(* rating form; the model uses customer_id for both.                       *)
(* average_rating (DECIMAL(2,1)) is kept in tenths: 35 is 3.5.             *)
(* A ratings row is its columns without id and the timestamps: id is a     *)
(* random uuid that no constraint, policy or trigger reads, and a          *)
(* statement names the row it changes by the row itself.                   *)
(***************************************************************************)
EXTENDS Integers, FiniteSets, Sequences, TLC

\* ---------------------------------------------------------------- bounds
NumUsers == 2
NumVendors == 2
MaxRatings == 2
NumSessions == 2
MaxAreas == 2
MaxComplaints == 2
MaxOwnedRows == 1

\* ------------------------------------------------------- program constants
MinRating == 1
MaxRating == 5
DefaultAverageRating == 0
DefaultTotalRatings == 0
FormUnset == 0
NoVendor == 0

\* SQL NULL for the nullable integer columns and for an absent row reference
NULL == 0 - 1

Users == 1..NumUsers
\* a connection whose role owns the tables or has BYPASSRLS (row-level
\* security is enabled, not forced); auth.uid() is NULL for it
ServiceRole == 0 - 2
Callers == Users \cup {ServiceRole}
VendorIds == 1..NumVendors
Sessions == 1..NumSessions

AreaIds == 1..MaxAreas
ComplaintIds == 1..MaxComplaints

\* the two schemas of the repository: "roles" has the enum types, the role
\* column of profiles, resolved_at and assigned_to on complaints and the
\* aggregate trigger; "simple" has the text columns with CHECK lists, the
\* user_type column of profiles and handle_new_user
Schemas == {"roles", "simple"}

\* user_role in "roles"; the CHECK list of profiles.user_type in "simple"
RolesOf(sch) == IF sch = "roles" THEN {"consumer", "vendor", "authority", "admin"}
                ELSE {"consumer", "vendor", "admin"}
DefaultRole == "consumer"

\* complaint_status in "roles"; the CHECK list of complaints.status in "simple"
StatusesOf(sch) ==
  IF sch = "roles" THEN {"pending", "investigating", "resolved", "dismissed"}
  ELSE {"pending", "investigating", "resolved", "rejected"}
DefaultStatus == "pending"

\* a timestamp a caller writes into resolved_at
SomeTime == 1

\* now() when the tables are created, and the last value of now() considered
Epoch == 0
MaxTime == 1
Times == Epoch..MaxTime

\* gen_random_uuid() for a new profile: an id no other profile has
ProfileIdOf(u) == 100 + u
ProfileIds == {ProfileIdOf(u) : u \in Users}

\* values a caller of the REST interface can put into an integer column
\* <<rating, food_quality_rating, price_rating, hygiene_rating>>
RatingPayloads == {<<0, NULL, NULL, NULL>>, <<6, NULL, NULL, NULL>>,
                   <<4, NULL, NULL, NULL>>, <<5, NULL, NULL, NULL>>}
SubRatingPayloads == {<<5, 0, NULL, NULL>>, <<5, NULL, 6, NULL>>,
                      <<5, 3, NULL, 5>>}
\* the columns an UPDATE sets, <<vendor_id, customer_id, rating>>; NULL is a
\* column the statement leaves out
RatingPatches ==
  {<<v, NULL, NULL>> : v \in VendorIds} \cup
  {<<NULL, p, NULL>> : p \in ProfileIds} \cup
  {<<NULL, NULL, r>> : r \in {0, 4, 5, 6}}
\* values the star widgets of the rating form can hold
FormRatings == {0, 5}
FormSubRatings == {<<0, 0, 0>>, <<3, 0, 5>>}

VARIABLES profiles, vendors, ratings, sessions, lastOp,
          schema, users, areas, complaints, lastStmt, now

vars == <<profiles, vendors, ratings, sessions, lastOp,
          schema, users, areas, complaints, lastStmt, now>>

\* what the statements on ratings and the rating form leave alone
accessVars == <<schema, users, areas, complaints, lastStmt, now>>

\* ------------------------------------------------------------- helpers
RECURSIVE SumRating(_)
SumRating(S) ==
  IF S = {} THEN 0
  ELSE LET r == CHOOSE x \in S : TRUE IN r.rating + SumRating(S \ {r})

RatingsOf(rs, v) == {r \in rs : r.vendor_id = v}

\* auth.uid() = profiles.user_id for the profile with id p
OwnsProfile(caller, p) ==
  \E pr \in profiles : pr.id = p /\ pr.user_id = caller

BypassRLS(caller) == caller = ServiceRole

\* COALESCE(a, b)
Coalesce(a, b) == IF a # NULL THEN a ELSE b

\* a CHECK written with the wrong lower limit
RatingCheck_from_zero(x) == x = NULL \/ (x >= 0 /\ x <= MaxRating)

\* CHECK (x >= 1 AND x <= 5): a NULL operand makes the check unknown, which passes
RatingCheck(x) == x = NULL \/ (x >= MinRating /\ x <= MaxRating)

\* ROUND(AVG(rating)::numeric, 1) in tenths; AVG over no rows is NULL
RoundAvg(S) ==
  IF S = {} THEN NULL
  ELSE (20 * SumRating(S) + Cardinality(S)) \div (2 * Cardinality(S))

\* the tables without the BEFORE UPDATE triggers: the row keeps the
\* updated_at the statement gives it
update_updated_at_column_absent(row) == row

\* update_updated_at_column(), the BEFORE UPDATE row trigger of profiles,
\* vendors and complaints: NEW.updated_at = now()
update_updated_at_column(row) == [row EXCEPT !.updated_at = now]

\* the vendors table with an UPDATE policy that lets every row through
VendorUpdatePolicy_open(caller, v) == TRUE

\* policy "Vendors can update their own data": USING for UPDATE on vendors
VendorUpdatePolicy(caller, v) ==
  BypassRLS(caller) \/ OwnsProfile(caller, v.profile_id)

\* the trigger function reading NEW.vendor_id alone, without the COALESCE
update_vendor_rating_new_only(caller, vs, rs, newVendor, oldVendor) ==
  { IF v.id = newVendor /\ VendorUpdatePolicy(caller, v)
      THEN update_updated_at_column(
             [v EXCEPT !.average_rating = RoundAvg(RatingsOf(rs, newVendor)),
                       !.total_ratings = Cardinality(RatingsOf(rs, newVendor))])
      ELSE v : v \in vs }

\* update_vendor_rating(): the trigger function runs with the rights of the
\* caller of the statement (it is not SECURITY DEFINER), so its UPDATE of
\* vendors touches only the rows the vendors UPDATE policy lets the caller see
update_vendor_rating(caller, vs, rs, newVendor, oldVendor) ==
  LET target == Coalesce(newVendor, oldVendor) IN
  { IF v.id = target /\ VendorUpdatePolicy(caller, v)
      THEN update_updated_at_column(
             [v EXCEPT !.average_rating = RoundAvg(RatingsOf(rs, target)),
                       !.total_ratings = Cardinality(RatingsOf(rs, target))])
      ELSE v : v \in vs }

\* the ratings table without its UNIQUE constraint
UniqueViolation_missing(rs, row) == FALSE

\* UNIQUE(vendor_id, customer_id): a row of rs, the other rows of the table,
\* already holds the pair
UniqueViolation(rs, row) ==
  \E r \in rs : r.vendor_id = row.vendor_id /\ r.customer_id = row.customer_id

\* the column CHECK constraints of ratings
CheckViolation(row) ==
  \/ row.rating = NULL
  \/ ~RatingCheck(row.rating)
  \/ ~RatingCheck(row.food_quality_rating)
  \/ ~RatingCheck(row.price_rating)
  \/ ~RatingCheck(row.hygiene_rating)

\* REFERENCES vendors(id), REFERENCES profiles(id)
FkViolation(row) ==
  \/ ~\E v \in vendors : v.id = row.vendor_id
  \/ ~\E p \in profiles : p.id = row.customer_id

\* policies "Users can rate vendors" (WITH CHECK) and "Users can update
\* their own ratings" (USING, applied to the new row too)
RatingOwnerPolicy(caller, row) ==
  BypassRLS(caller) \/ OwnsProfile(caller, row.customer_id)

\* the error a new or changed ratings row raises, in the order the checks run
RowError(caller, rs, row) ==
  IF ~RatingOwnerPolicy(caller, row) THEN "rls_violation"
  ELSE IF CheckViolation(row) THEN "check_violation"
  ELSE IF UniqueViolation(rs, row) THEN "unique_violation"
  ELSE IF FkViolation(row) THEN "fk_violation"
  ELSE "ok"

FreeVendorIds == {i \in VendorIds : ~\E v \in vendors : v.id = i}
Min(S) == CHOOSE x \in S : \A y \in S : x <= y

\* the last statement on ratings: its kind, its outcome, and when it changed a
\* row its caller and the vendor_id of the row after and before it (NULL: no
\* such row)
NoOp == [kind |-> "none", outcome |-> "ok", caller |-> NULL, vendor |-> NULL,
         oldVendor |-> NULL]

\* no row: the place of a row in the record of a statement that has none
NoRow == [id |-> NULL]

\* the last statement on profiles, vendors, complaints, areas or auth.users:
\* its table, its kind, the caller, the outcome, the row it addressed as it
\* was before (old) and the row it wrote or, for a refused INSERT, presented
\* (new)
NoStmt == [table |-> "none", kind |-> "none", caller |-> NULL, outcome |-> "ok",
           old |-> NoRow, new |-> NoRow]

\* the tables next to ratings as the statements on ratings find them: the
\* schema with the aggregate trigger, every identity of auth.users there,
\* no area and no complaint
AccessIdle ==
  /\ schema = "roles"
  /\ users = Users
  /\ areas = {}
  /\ complaints = {}
  /\ lastStmt = NoStmt
  /\ now = Epoch

\* one open Ratings page: where its handleSubmit stands ("form": not running,
\* "inserting": between the profile query and the insert), the form data it
\* last submitted, the profile it fetched, what the handler told the user
\* ("idle": never submitted, "returned": it returned without a message), and
\* whether another page was inserting for the same user and vendor meanwhile
IdleSession == [pc |-> "form", user |-> NULL, profile |-> NULL,
                vendor_id |-> NoVendor, rating |-> FormUnset,
                subs |-> <<FormUnset, FormUnset, FormUnset>>,
                outcome |-> "idle", raced |-> FALSE]

Init ==
  /\ profiles = {}
  /\ vendors = {}
  /\ ratings = {}
  /\ sessions = [s \in Sessions |-> IdleSession]
  /\ lastOp = NoOp
  /\ AccessIdle

\* ------------------------------------------------------------- actions
\* a profile row for identity u: handle_new_user at sign-up, or the caller's
\* own INSERT under "Users can insert their own profile"; UNIQUE(user_id)
SignUp(u) ==
  /\ ~\E p \in profiles : p.user_id = u
  /\ profiles' = profiles \cup {[id |-> ProfileIdOf(u), user_id |-> u,
                                  role |-> DefaultRole, area_id |-> NULL,
                                  created_at |-> now, updated_at |-> now]}
  /\ UNCHANGED <<vendors, ratings, sessions, lastOp>>
  /\ UNCHANGED accessVars

\* Vendors page handleSubmit when each of its requests succeeds: look up the
\* caller's profile, insert a vendor row for it (the aggregate columns take
\* their defaults), set the profile's user_type / role to vendor
RegisterVendor(u) ==
  /\ FreeVendorIds # {}
  /\ \E p \in profiles : p.user_id = u
  /\ LET p == CHOOSE q \in profiles : q.user_id = u IN
     /\ vendors' = vendors \cup {[id |-> Min(FreeVendorIds), profile_id |-> p.id,
                                  average_rating |-> DefaultAverageRating,
                                  total_ratings |-> DefaultTotalRatings,
                                  updated_at |-> now]}
     /\ profiles' = (profiles \ {p})
                       \cup {update_updated_at_column([p EXCEPT !.role = "vendor"])}
  /\ UNCHANGED <<ratings, sessions, lastOp>>
  /\ UNCHANGED accessVars

\* the outcome of INSERT INTO ratings by caller
InsertError(caller, vendor, customer, rating, fq, pr, hy) ==
  RowError(caller, ratings,
           [vendor_id |-> vendor, customer_id |-> customer, rating |-> rating,
            food_quality_rating |-> fq, price_rating |-> pr,
            hygiene_rating |-> hy])

\* the statement INSERT INTO ratings by caller, with the AFTER INSERT row
\* trigger: an error leaves the tables as they were
InsertStatement(caller, vendor, customer, rating, fq, pr, hy) ==
  LET row == [vendor_id |-> vendor, customer_id |-> customer,
              rating |-> rating,
              food_quality_rating |-> fq, price_rating |-> pr,
              hygiene_rating |-> hy]
      err == InsertError(caller, vendor, customer, rating, fq, pr, hy)
      rs == ratings \cup {row}
  IN
  /\ ratings' = IF err = "ok" THEN rs ELSE ratings
  /\ vendors' = IF err = "ok"
                  THEN update_vendor_rating(caller, vendors, rs, vendor, NULL)
                  ELSE vendors
  /\ lastOp' = [kind |-> "insert", outcome |-> err,
                caller |-> IF err = "ok" THEN caller ELSE NULL,
                vendor |-> IF err = "ok" THEN vendor ELSE NULL,
                oldVendor |-> NULL]

\* INSERT INTO ratings sent to the REST interface by caller
InsertRating(caller, vendor, customer, rating, fq, pr, hy) ==
  /\ Cardinality(ratings) < MaxRatings
  /\ InsertStatement(caller, vendor, customer, rating, fq, pr, hy)
  /\ UNCHANGED <<profiles, sessions>>
  /\ UNCHANGED accessVars

\* the row an UPDATE of ratings makes of old; NULL is a column it leaves out
UpdatedRow(old, vendor, customer, rating) ==
  [old EXCEPT !.vendor_id = Coalesce(vendor, old.vendor_id),
              !.customer_id = Coalesce(customer, old.customer_id),
              !.rating = Coalesce(rating, old.rating)]

\* the outcome of UPDATE ratings by caller; a row the USING policy hides is
\* skipped without an error
UpdateError(caller, old, vendor, customer, rating) ==
  IF RatingOwnerPolicy(caller, old)
    THEN RowError(caller, ratings \ {old}, UpdatedRow(old, vendor, customer, rating))
    ELSE "no_rows"

\* the statement UPDATE ratings SET ... WHERE id = old.id by caller, with the
\* AFTER UPDATE row trigger
UpdateStatement(caller, old, vendor, customer, rating) ==
  LET row == UpdatedRow(old, vendor, customer, rating)
      err == UpdateError(caller, old, vendor, customer, rating)
      rs == (ratings \ {old}) \cup {row}
  IN
  /\ ratings' = IF err = "ok" THEN rs ELSE ratings
  /\ vendors' = IF err = "ok"
                  THEN update_vendor_rating(caller, vendors, rs, row.vendor_id,
                                            old.vendor_id)
                  ELSE vendors
  /\ lastOp' = [kind |-> "update", outcome |-> err,
                caller |-> IF err = "ok" THEN caller ELSE NULL,
                vendor |-> IF err = "ok" THEN row.vendor_id ELSE NULL,
                oldVendor |-> IF err = "ok" THEN old.vendor_id ELSE NULL]

\* UPDATE ratings sent to the REST interface by caller
UpdateRating(caller, old, vendor, customer, rating) ==
  /\ old \in ratings
  /\ UpdateStatement(caller, old, vendor, customer, rating)
  /\ UNCHANGED <<profiles, sessions>>
  /\ UNCHANGED accessVars

\* the ratings table with a DELETE policy for the author of the row
RatingDeletePolicy_owner(caller, row) ==
  BypassRLS(caller) \/ OwnsProfile(caller, row.customer_id)

\* ratings has policies FOR SELECT, INSERT and UPDATE and none FOR DELETE:
\* row-level security hides every row from the DELETE of a caller that does
\* not bypass it
RatingDeletePolicy(caller, row) == BypassRLS(caller)

\* the statement DELETE FROM ratings WHERE id = old.id by caller, with the
\* AFTER DELETE row trigger
DeleteStatement(caller, old) ==
  /\ old \in ratings
  /\ LET visible == RatingDeletePolicy(caller, old)
         rs == ratings \ {old}
     IN
     /\ ratings' = IF visible THEN rs ELSE ratings
     /\ vendors' = IF visible
                     THEN update_vendor_rating(caller, vendors, rs, NULL,
                                               old.vendor_id)
                     ELSE vendors
     /\ lastOp' = [kind |-> "delete",
                   outcome |-> IF visible THEN "ok" ELSE "no_rows",
                   caller |-> IF visible THEN caller ELSE NULL,
                   vendor |-> NULL,
                   oldVendor |-> IF visible THEN old.vendor_id ELSE NULL]

\* DELETE FROM ratings sent to the REST interface by caller
DeleteRating(caller, old) ==
  /\ DeleteStatement(caller, old)
  /\ UNCHANGED <<profiles, sessions>>
  /\ UNCHANGED accessVars

\* formData.x || null
OrNull(x) == IF x = FormUnset THEN NULL ELSE x

\* the handler without `if (error) throw error`
ToastOf_error_ignored(err) == "success"

\* what the handler shows for the result of the insert: `if (error) throw
\* error` leads to the error toast with the error's message
ToastOf(err) == IF err = "ok" THEN "success" ELSE err

\* the vendors the form's select offers (the select is required: the form
\* is not submitted without a choice)
ListedVendors == {v.id : v \in vendors}

SamePair(a, b) == a.user = b.user /\ a.vendor_id = b.vendor_id

\* Ratings page handleSubmit up to its first await: the guard on the form's
\* rating, then the query for the caller's profile
HandleSubmit(s, u, vendor, rating, subs) ==
  /\ sessions[s].pc = "form"
  /\ vendor \in ListedVendors
  /\ LET form == [IdleSession EXCEPT !.user = u, !.vendor_id = vendor,
                                     !.rating = rating, !.subs = subs]
         found == {p \in profiles : p.user_id = u}
         racing == {t \in Sessions \ {s} : sessions[t].pc = "inserting"
                                            /\ SamePair(sessions[t], form)}
     IN
     sessions' =
       IF rating = FormUnset
         THEN [sessions EXCEPT ![s] = [form EXCEPT !.outcome = "returned"]]
       ELSE IF found = {}
         THEN [sessions EXCEPT ![s] = [form EXCEPT !.outcome = "Profile not found"]]
       ELSE [t \in Sessions |->
               IF t = s
                 THEN [form EXCEPT !.pc = "inserting",
                                   !.profile = (CHOOSE p \in found : TRUE).id,
                                   !.outcome = "pending",
                                   !.raced = racing # {}]
               ELSE IF t \in racing THEN [sessions[t] EXCEPT !.raced = TRUE]
               ELSE sessions[t]]
  /\ UNCHANGED <<profiles, vendors, ratings, lastOp>>
  /\ UNCHANGED accessVars

\* handleSubmit from the insert on: the row is the form data with the fetched
\* profile as reviewer and each unset sub-rating turned into null
HandleSubmitInsert(s) ==
  /\ sessions[s].pc = "inserting"
  /\ Cardinality(ratings) < MaxRatings
  /\ LET f == sessions[s]
         fq == OrNull(f.subs[1])
         pr == OrNull(f.subs[2])
         hy == OrNull(f.subs[3])
     IN
     /\ InsertStatement(f.user, f.vendor_id, f.profile, f.rating, fq, pr, hy)
     /\ sessions' = [sessions EXCEPT
                       ![s].pc = "form",
                       ![s].outcome =
                          ToastOf(InsertError(f.user, f.vendor_id, f.profile,
                                              f.rating, fq, pr, hy))]
  /\ UNCHANGED profiles
  /\ UNCHANGED accessVars

Next ==
  \/ \E u \in Users : SignUp(u)
  \/ \E u \in Users : RegisterVendor(u)
  \/ \E c \in Callers, v \in VendorIds, p \in ProfileIds, x \in RatingPayloads :
        InsertRating(c, v, p, x[1], x[2], x[3], x[4])
  \/ \E c \in Callers, r \in ratings, x \in RatingPatches :
        UpdateRating(c, r, x[1], x[2], x[3])
  \/ \E c \in Callers, r \in ratings : DeleteRating(c, r)

Spec == Init /\ [][Next]_vars

\* the Ratings pages, next to callers of the REST interface that send rows
\* with sub-ratings
NextUI ==
  \/ \E u \in Users : SignUp(u)
  \/ \E s \in Sessions, u \in Users, v \in VendorIds,
        r \in FormRatings, x \in FormSubRatings :
        HandleSubmit(s, u, v, r, x)
  \/ \E s \in Sessions : HandleSubmitInsert(s)
  \/ \E c \in Callers, v \in VendorIds, p \in ProfileIds, x \in SubRatingPayloads :
        InsertRating(c, v, p, x[1], x[2], x[3], x[4])

\* the state Spec is in after SignUp(1) and RegisterVendor(1)
InitUI ==
  /\ profiles = {[id |-> ProfileIdOf(1), user_id |-> 1,
                  role |-> "vendor", area_id |-> NULL,
                  created_at |-> Epoch, updated_at |-> Epoch]}
  /\ vendors = {[id |-> 1, profile_id |-> ProfileIdOf(1),
                 average_rating |-> DefaultAverageRating,
                 total_ratings |-> DefaultTotalRatings,
                 updated_at |-> Epoch]}
  /\ ratings = {}
  /\ sessions = [s \in Sessions |-> IdleSession]
  /\ lastOp = NoOp
  /\ AccessIdle

SpecUI == InitUI /\ [][NextUI]_vars

\* ------------------------------------------------------------------------
\* Profiles, vendors, complaints and areas under row-level security
\* ------------------------------------------------------------------------
\* a caller of the REST interface without a session: auth.uid() is NULL
Anon == 0
\* the callers of the REST interface: the signed-in identities and Anon
ApiCallers == Users \cup {Anon}

\* a text column an UPDATE leaves out
Unset == "unset"
CoalesceText(a, b) == IF a # Unset THEN a ELSE b

\* EXISTS (SELECT 1 FROM profiles WHERE user_id = auth.uid() AND role IN R)
HasRole(caller, R) ==
  \E p \in profiles : p.user_id = caller /\ p.role \in R

Stmt(table, kind, caller, outcome, old, new) ==
  [table |-> table, kind |-> kind, caller |-> caller, outcome |-> outcome,
   old |-> old, new |-> new]

\* what the statements on profiles, vendors, complaints and areas leave
\* alone: the ratings, the pages and the clock
ratingVars == <<ratings, sessions, lastOp, now>>

\* ---------------------------------------------------------------- profiles
\* the profiles policies with an exemption for callers with role admin
ProfileOwnerPolicy_admin(caller, row) ==
  BypassRLS(caller) \/ row.user_id = caller \/ HasRole(caller, {"admin"})

\* policies "Users can insert their own profile" (WITH CHECK) and "Users can
\* update their own profile" (USING, applied to the new row too)
ProfileOwnerPolicy(caller, row) ==
  BypassRLS(caller) \/ row.user_id = caller

\* the profiles table without UNIQUE(user_id)
ProfileUniqueViolation_missing(ps, row) == FALSE

\* UNIQUE(user_id): a row of ps, the other rows of the table, holds the identity
ProfileUniqueViolation(ps, row) ==
  \E p \in ps : p.user_id = row.user_id

\* the error a new or changed profiles row raises; ids is auth.users
ProfileError(caller, ps, ids, row) ==
  IF ~ProfileOwnerPolicy(caller, row) THEN "rls_violation"
  ELSE IF row.role \notin RolesOf(schema) THEN "check_violation"
  ELSE IF ProfileUniqueViolation(ps, row) THEN "unique_violation"
  ELSE IF row.user_id \notin ids THEN "fk_violation"
  ELSE IF row.area_id # NULL /\ ~\E a \in areas : a.id = row.area_id
    THEN "fk_violation"
  ELSE "ok"

\* the statement INSERT INTO profiles of row by caller
ProfileInsertStatement(caller, row) ==
  LET err == ProfileError(caller, profiles, users, row) IN
  /\ profiles' = IF err = "ok" THEN profiles \cup {row} ELSE profiles
  /\ lastStmt' = Stmt("profiles", "insert", caller, err, NoRow, row)
  /\ UNCHANGED <<vendors, schema, users, areas, complaints>>
  /\ UNCHANGED ratingVars

\* INSERT INTO profiles (user_id, role) by caller; created_at and updated_at
\* take their default now()
InsertProfile(caller, uid, role) ==
  ProfileInsertStatement(caller,
    [id |-> ProfileIdOf(uid), user_id |-> uid, role |-> role,
     area_id |-> NULL, created_at |-> now, updated_at |-> now])

\* INSERT INTO profiles (user_id, created_at, updated_at) by caller (NULL: a
\* column the statement leaves to its default)
InsertProfileAt(caller, uid, created, updated) ==
  ProfileInsertStatement(caller,
    [id |-> ProfileIdOf(uid), user_id |-> uid, role |-> DefaultRole,
     area_id |-> NULL, created_at |-> Coalesce(created, now),
     updated_at |-> Coalesce(updated, now)])

\* the statement UPDATE profiles SET ... WHERE id = old.id by caller, where
\* set is old with the SET clause applied; a row the USING policy hides is
\* skipped without an error
ProfileUpdateEffect(caller, old, set) ==
  LET row == update_updated_at_column(set)
      err == IF ProfileOwnerPolicy(caller, old)
               THEN ProfileError(caller, profiles \ {old}, users, row)
               ELSE "no_rows"
  IN
  /\ profiles' = IF err = "ok" THEN (profiles \ {old}) \cup {row} ELSE profiles
  /\ lastStmt' = Stmt("profiles", "update", caller, err, old,
                      IF err = "ok" THEN row ELSE NoRow)

\* the statement sent to the REST interface
ProfileUpdateStatement(caller, old, set) ==
  /\ old \in profiles
  /\ ProfileUpdateEffect(caller, old, set)
  /\ UNCHANGED <<vendors, schema, users, areas, complaints>>
  /\ UNCHANGED ratingVars

\* UPDATE profiles SET user_id = uid, role = role WHERE id = old.id by caller
\* (NULL, Unset: a column the statement leaves out)
UpdateProfile(caller, old, uid, role) ==
  ProfileUpdateStatement(caller, old,
    [old EXCEPT !.user_id = Coalesce(uid, old.user_id),
                !.role = CoalesceText(role, old.role)])

\* UPDATE profiles SET created_at = created, updated_at = updated
\* WHERE id = old.id by caller
UpdateProfileAt(caller, old, created, updated) ==
  ProfileUpdateStatement(caller, old,
    [old EXCEPT !.created_at = Coalesce(created, old.created_at),
                !.updated_at = Coalesce(updated, old.updated_at)])

\* now() moves on between two statements
Tick ==
  /\ now < MaxTime
  /\ now' = now + 1
  /\ UNCHANGED <<profiles, vendors, ratings, sessions, lastOp,
                 schema, users, areas, complaints, lastStmt>>

\* INSERT INTO auth.users of identity u in the schema that has the trigger
\* on_auth_user_created: handle_new_user() inserts the profile as the owner
\* of the function (SECURITY DEFINER) with the column defaults. The function
\* has no exception handler: an error of its INSERT (fault: an error from
\* outside the model, such as a lock timeout) aborts the statement on
\* auth.users with it
CreateIdentity(u, fault) ==
  /\ schema = "simple"
  /\ u \notin users
  /\ LET row == [id |-> ProfileIdOf(u), user_id |-> u, role |-> DefaultRole,
                 area_id |-> NULL, created_at |-> now, updated_at |-> now]
         err == IF fault THEN "trigger_error"
                ELSE ProfileError(ServiceRole, profiles, users \cup {u}, row)
     IN
     /\ users' = IF err = "ok" THEN users \cup {u} ELSE users
     /\ profiles' = IF err = "ok" THEN profiles \cup {row} ELSE profiles
     /\ lastStmt' = Stmt("users", "insert", Anon, err, NoRow, [id |-> u])
  /\ UNCHANGED <<vendors, schema, areas, complaints>>
  /\ UNCHANGED ratingVars

\* ----------------------------------------------------------------- vendors
\* policy "Vendors can insert their own data": WITH CHECK for INSERT
VendorInsertPolicy(caller, v) ==
  BypassRLS(caller) \/ OwnsProfile(caller, v.profile_id)

\* the error a new or changed vendors row raises
VendorError(caller, policyHolds, row) ==
  IF ~policyHolds THEN "rls_violation"
  ELSE IF ~\E p \in profiles : p.id = row.profile_id THEN "fk_violation"
  ELSE "ok"

\* the row INSERT INTO vendors (profile_id) stores: the aggregate columns
\* take their defaults
NewVendor(profile) ==
  [id |-> Min(FreeVendorIds), profile_id |-> profile,
   average_rating |-> DefaultAverageRating,
   total_ratings |-> DefaultTotalRatings, updated_at |-> now]

\* the outcome of INSERT INTO vendors (profile_id) by caller
VendorInsertError(caller, profile) ==
  VendorError(caller, VendorInsertPolicy(caller, NewVendor(profile)),
              NewVendor(profile))

\* the statement INSERT INTO vendors (profile_id) by caller
VendorInsertEffect(caller, profile) ==
  LET row == NewVendor(profile)
      err == VendorInsertError(caller, profile)
  IN
  /\ vendors' = IF err = "ok" THEN vendors \cup {row} ELSE vendors
  /\ lastStmt' = Stmt("vendors", "insert", caller, err, NoRow, row)

\* INSERT INTO vendors (profile_id) sent to the REST interface by caller
InsertVendor(caller, profile) ==
  /\ Cardinality(vendors) < MaxOwnedRows
  /\ VendorInsertEffect(caller, profile)
  /\ UNCHANGED <<profiles, schema, users, areas, complaints>>
  /\ UNCHANGED ratingVars

\* the statement UPDATE vendors SET ... WHERE id = old.id by caller, where
\* set is old with the SET clause applied
VendorUpdateStatement(caller, old, set) ==
  /\ old \in vendors
  /\ LET row == update_updated_at_column(set)
         err == IF VendorUpdatePolicy(caller, old)
                  THEN VendorError(caller, VendorUpdatePolicy(caller, row), row)
                  ELSE "no_rows"
     IN
     /\ vendors' = IF err = "ok" THEN (vendors \ {old}) \cup {row} ELSE vendors
     /\ lastStmt' = Stmt("vendors", "update", caller, err, old,
                         IF err = "ok" THEN row ELSE NoRow)
  /\ UNCHANGED <<profiles, schema, users, areas, complaints>>
  /\ UNCHANGED ratingVars

\* UPDATE vendors SET profile_id = profile, average_rating = average
\* WHERE id = old.id by caller
UpdateVendor(caller, old, profile, average) ==
  VendorUpdateStatement(caller, old,
    [old EXCEPT !.profile_id = Coalesce(profile, old.profile_id),
                !.average_rating = Coalesce(average, old.average_rating)])

\* UPDATE vendors SET updated_at = updated WHERE id = old.id by caller
UpdateVendorAt(caller, old, updated) ==
  VendorUpdateStatement(caller, old, [old EXCEPT !.updated_at = updated])

\* ------------------------------------------------------- the Vendors page
\* Vendors page handleSubmit up to its first await: the query for the
\* caller's profile; `throw new Error('Profile not found')` goes to the
\* error toast
VendorSubmit(s, u) ==
  /\ sessions[s].pc = "form"
  /\ LET found == {p \in profiles : p.user_id = u} IN
     sessions' =
       IF found = {}
         THEN [sessions EXCEPT ![s] = [IdleSession EXCEPT
                                         !.user = u,
                                         !.outcome = "Profile not found"]]
         ELSE [sessions EXCEPT ![s] = [IdleSession EXCEPT
                                         !.user = u,
                                         !.pc = "inserting",
                                         !.profile = (CHOOSE p \in found : TRUE).id,
                                         !.outcome = "pending"]]
  /\ UNCHANGED <<profiles, vendors, ratings, lastOp>>
  /\ UNCHANGED accessVars

\* handleSubmit at the insert of the vendor: `if (error) throw error` goes
\* to the error toast, otherwise the handler goes on to the role update
VendorSubmitInsert(s) ==
  /\ sessions[s].pc = "inserting"
  /\ FreeVendorIds # {}
  /\ LET f == sessions[s]
         err == VendorInsertError(f.user, f.profile)
     IN
     /\ VendorInsertEffect(f.user, f.profile)
     /\ sessions' = [sessions EXCEPT
                       ![s].pc = IF err = "ok" THEN "updating" ELSE "form",
                       ![s].outcome = IF err = "ok" THEN "pending" ELSE err]
  /\ UNCHANGED <<profiles, ratings, lastOp, schema, users, areas, complaints, now>>

\* handleSubmit from the role update on: update({ user_type: 'vendor' }) on
\* the caller's profile, awaited without a look at its result, then the
\* success toast. failed: the request ends in an error (the row is gone, or
\* the request does not reach the database) and changes nothing
VendorSubmitPromote(s, failed) ==
  /\ sessions[s].pc = "updating"
  /\ LET f == sessions[s]
         mine == {p \in profiles : p.id = f.profile}
     IN
     /\ IF failed \/ mine = {}
          THEN /\ profiles' = profiles
               /\ lastStmt' = Stmt("profiles", "update", f.user,
                                   IF failed THEN "request_failed" ELSE "no_rows",
                                   NoRow, NoRow)
          ELSE LET old == CHOOSE p \in mine : TRUE IN
               ProfileUpdateEffect(f.user, old, [old EXCEPT !.role = "vendor"])
     /\ sessions' = [sessions EXCEPT ![s].pc = "form",
                                     ![s].outcome = "success"]
  /\ UNCHANGED <<vendors, ratings, lastOp, schema, users, areas, complaints, now>>

\* ----------------------------------------------------------------- ratings
\* INSERT INTO ratings by caller, recorded with its caller and row
InsertRatingBy(caller, vendor, customer, rating) ==
  /\ Cardinality(ratings) < MaxOwnedRows
  /\ InsertStatement(caller, vendor, customer, rating, NULL, NULL, NULL)
  /\ lastStmt' = Stmt("ratings", "insert", caller,
                      InsertError(caller, vendor, customer, rating, NULL, NULL, NULL),
                      NoRow,
                      [vendor_id |-> vendor, customer_id |-> customer,
                       rating |-> rating, food_quality_rating |-> NULL,
                       price_rating |-> NULL, hygiene_rating |-> NULL])
  /\ UNCHANGED <<profiles, sessions, schema, users, areas, complaints, now>>

\* UPDATE ratings by caller, recorded with its caller and rows
UpdateRatingBy(caller, old, vendor, customer, rating) ==
  /\ old \in ratings
  /\ UpdateStatement(caller, old, vendor, customer, rating)
  /\ lastStmt' = Stmt("ratings", "update", caller,
                      UpdateError(caller, old, vendor, customer, rating), old,
                      IF UpdateError(caller, old, vendor, customer, rating) = "ok"
                        THEN UpdatedRow(old, vendor, customer, rating)
                        ELSE NoRow)
  /\ UNCHANGED <<profiles, sessions, schema, users, areas, complaints, now>>

\* DELETE FROM ratings by caller, recorded with its caller and row
DeleteRatingBy(caller, old) ==
  /\ DeleteStatement(caller, old)
  /\ lastStmt' = Stmt("ratings", "delete", caller,
                      IF RatingDeletePolicy(caller, old) THEN "ok" ELSE "no_rows",
                      old, NoRow)
  /\ UNCHANGED <<profiles, sessions, schema, users, areas, complaints, now>>

\* -------------------------------------------------------------- complaints
\* "roles": policy "Users can view complaints in their area or filed by
\* them"; "simple": policy "Users can view complaints in their area", USING
\* (true); the caller reads every row when the policy is USING (true)
ComplaintSelectPolicy_public(caller, c) == TRUE

ComplaintSelectPolicy(caller, c) ==
  \/ BypassRLS(caller)
  \/ IF schema = "roles"
       THEN \/ OwnsProfile(caller, c.complainant_id)
            \/ OwnsProfile(caller, c.assigned_to)
            \/ HasRole(caller, {"authority", "admin"})
       ELSE TRUE

\* the complaints table without an INSERT policy check
ComplaintInsertPolicy_open(caller, c) == TRUE

\* policies "Users can file complaints" and "Users can create complaints":
\* WITH CHECK for INSERT
ComplaintInsertPolicy(caller, c) ==
  BypassRLS(caller) \/ OwnsProfile(caller, c.complainant_id)

\* "roles": policy "Authorities can update complaints"; "simple": policy
\* "Complainants can update their complaints"
ComplaintUpdatePolicy(caller, c) ==
  \/ BypassRLS(caller)
  \/ IF schema = "roles"
       THEN HasRole(caller, {"authority", "admin"})
       ELSE OwnsProfile(caller, c.complainant_id)

\* the error a new or changed complaints row raises
ComplaintError(policyHolds, row) ==
  IF ~policyHolds THEN "rls_violation"
  ELSE IF row.status \notin StatusesOf(schema) THEN "check_violation"
  ELSE IF ~\E p \in profiles : p.id = row.complainant_id THEN "fk_violation"
  ELSE IF row.assigned_to # NULL /\ ~\E p \in profiles : p.id = row.assigned_to
    THEN "fk_violation"
  ELSE IF row.vendor_id # NULL /\ ~\E v \in vendors : v.id = row.vendor_id
    THEN "fk_violation"
  ELSE "ok"

FreeComplaintIds == {i \in ComplaintIds : ~\E c \in complaints : c.id = i}

\* INSERT INTO complaints (complainant_id, vendor_id) by caller, as the
\* Complaints page sends it: status, assigned_to and resolved_at take their
\* defaults
InsertComplaintAbout(caller, complainant, vendor) ==
  /\ FreeComplaintIds # {}
  /\ LET row == [id |-> Min(FreeComplaintIds), complainant_id |-> complainant,
                 vendor_id |-> vendor,
                 assigned_to |-> NULL, status |-> DefaultStatus,
                 resolved_at |-> NULL, updated_at |-> now]
         err == ComplaintError(ComplaintInsertPolicy(caller, row), row)
     IN
     /\ complaints' = IF err = "ok" THEN complaints \cup {row} ELSE complaints
     /\ lastStmt' = Stmt("complaints", "insert", caller, err, NoRow, row)
  /\ UNCHANGED <<profiles, vendors, schema, users, areas>>
  /\ UNCHANGED ratingVars

\* the insert of a complaint that names no vendor (vendor_id: null)
InsertComplaint(caller, complainant) ==
  InsertComplaintAbout(caller, complainant, NULL)

\* the statement UPDATE complaints SET ... WHERE id = old.id by caller, where
\* set is old with the SET clause applied; the statement reaches the rows the
\* SELECT and the UPDATE policy both let the caller see, and the UPDATE
\* policy is applied to the new row too
ComplaintUpdateStatement(caller, old, set) ==
  /\ old \in complaints
  /\ LET row == update_updated_at_column(set)
         err == IF /\ ComplaintSelectPolicy(caller, old)
                   /\ ComplaintUpdatePolicy(caller, old)
                  THEN ComplaintError(ComplaintUpdatePolicy(caller, row), row)
                  ELSE "no_rows"
     IN
     /\ complaints' = IF err = "ok" THEN (complaints \ {old}) \cup {row}
                      ELSE complaints
     /\ lastStmt' = Stmt("complaints", "update", caller, err, old,
                         IF err = "ok" THEN row ELSE NoRow)
  /\ UNCHANGED <<profiles, vendors, schema, users, areas>>
  /\ UNCHANGED ratingVars

\* UPDATE complaints SET assigned_to = assigned, status = status,
\* resolved_at = resolved WHERE id = old.id by caller
UpdateComplaint(caller, old, assigned, status, resolved) ==
  ComplaintUpdateStatement(caller, old,
    [old EXCEPT !.assigned_to = Coalesce(assigned, old.assigned_to),
                !.status = CoalesceText(status, old.status),
                !.resolved_at = Coalesce(resolved, old.resolved_at)])

\* UPDATE complaints SET updated_at = updated WHERE id = old.id by caller
UpdateComplaintAt(caller, old, updated) ==
  ComplaintUpdateStatement(caller, old, [old EXCEPT !.updated_at = updated])

\* the rows SELECT * FROM complaints returns to caller from the table cs
SelectComplaints(caller, cs) == {c \in cs : ComplaintSelectPolicy(caller, c)}

\* Complaints page fetchComplaints by caller
FetchComplaints(caller) ==
  /\ lastStmt' = Stmt("complaints", "select", caller, "ok", NoRow,
                      [id |-> NULL, seen |-> SelectComplaints(caller, complaints)])
  /\ UNCHANGED <<profiles, vendors, schema, users, areas, complaints>>
  /\ UNCHANGED ratingVars

\* ------------------------------------------------------------------- areas
\* names of the sample areas
AreaNames == {"Guntur City", "Kadapa City"}

\* the areas table with a policy that lets every caller modify it
AreaModifyPolicy_open(caller) == TRUE

\* "roles": policy "Only admins can modify areas", FOR ALL with USING (used
\* as WITH CHECK too); "simple" has no policy for INSERT, UPDATE or DELETE
AreaModifyPolicy(caller) ==
  \/ BypassRLS(caller)
  \/ schema = "roles" /\ HasRole(caller, {"admin"})

\* policy "Areas are viewable by everyone": USING (true)
AreaSelectPolicy(caller, a) == TRUE

FreeAreaIds == {i \in AreaIds : ~\E a \in areas : a.id = i}

\* INSERT INTO areas (name) by caller
InsertArea(caller, name) ==
  /\ FreeAreaIds # {}
  /\ LET row == [id |-> Min(FreeAreaIds), name |-> name]
         err == IF AreaModifyPolicy(caller) THEN "ok" ELSE "rls_violation"
     IN
     /\ areas' = IF err = "ok" THEN areas \cup {row} ELSE areas
     /\ lastStmt' = Stmt("areas", "insert", caller, err, NoRow, row)
  /\ UNCHANGED <<profiles, vendors, schema, users, complaints>>
  /\ UNCHANGED ratingVars

\* UPDATE areas SET name = name WHERE id = old.id by caller
UpdateArea(caller, old, name) ==
  /\ old \in areas
  /\ LET row == [old EXCEPT !.name = name]
         err == IF AreaModifyPolicy(caller) THEN "ok" ELSE "no_rows"
     IN
     /\ areas' = IF err = "ok" THEN (areas \ {old}) \cup {row} ELSE areas
     /\ lastStmt' = Stmt("areas", "update", caller, err, old,
                         IF err = "ok" THEN row ELSE NoRow)
  /\ UNCHANGED <<profiles, vendors, schema, users, complaints>>
  /\ UNCHANGED ratingVars

\* the rows SELECT * FROM areas returns to caller
SelectAreas(caller) == {a \in areas : AreaSelectPolicy(caller, a)}

\* fetchAreas of the Complaints, Vendors and Profile pages by caller
FetchAreas(caller) ==
  /\ lastStmt' = Stmt("areas", "select", caller, "ok", NoRow,
                      [id |-> NULL, seen |-> SelectAreas(caller)])
  /\ UNCHANGED <<profiles, vendors, schema, users, areas, complaints>>
  /\ UNCHANGED ratingVars

\* --------------------------------------------------------- specifications
\* one profile per identity, as sign-up leaves it
\* ------------------------------------------------------------------ deletes
\* the tables without the check of the NO ACTION references
RestrictViolation_missing(cs, rs, pids, vids) == FALSE

\* a row of the complaints cs or of the ratings rs, the rows a delete leaves
\* in the two tables, references one of the deleted profiles pids or vendors
\* vids: the reference is one without ON DELETE, checked at the end of the
\* statement
RestrictViolation(cs, rs, pids, vids) ==
  \/ \E c \in cs : \/ c.complainant_id \in pids
                    \/ c.assigned_to \in pids
                    \/ c.vendor_id \in vids
  \/ \E r \in rs : r.customer_id \in pids \/ r.vendor_id \in vids

\* the tables after a delete of the profiles gp and the vendors gv0, and its
\* error. Both schemas: vendors.profile_id ON DELETE CASCADE. "roles": no
\* other reference has an ON DELETE action. "simple":
\* complaints.complainant_id, ratings.reviewer_id and ratings.vendor_id
\* ON DELETE CASCADE, complaints.vendor_id ON DELETE SET NULL, an update that
\* fires the BEFORE UPDATE trigger of complaints
DeleteResult(gp, gv0) ==
  LET pids == {p.id : p \in gp}
      gv == gv0 \cup {v \in vendors : v.profile_id \in pids}
      vids == {v.id : v \in gv}
      cascades == schema = "simple"
      gc == IF cascades THEN {c \in complaints : c.complainant_id \in pids}
            ELSE {}
      gr == IF cascades
              THEN {r \in ratings : r.customer_id \in pids \/ r.vendor_id \in vids}
              ELSE {}
      cs == IF cascades
              THEN {IF c.vendor_id \in vids
                      THEN update_updated_at_column([c EXCEPT !.vendor_id = NULL])
                      ELSE c : c \in complaints \ gc}
              ELSE complaints
      rs == ratings \ gr
  IN
  [err |-> IF RestrictViolation(cs, rs, pids, vids) THEN "fk_violation" ELSE "ok",
   profiles |-> profiles \ gp, vendors |-> vendors \ gv,
   complaints |-> cs, ratings |-> rs]

\* the delete with result res takes effect unless it raised an error
DeleteEffect(res) ==
  /\ profiles' = IF res.err = "ok" THEN res.profiles ELSE profiles
  /\ vendors' = IF res.err = "ok" THEN res.vendors ELSE vendors
  /\ complaints' = IF res.err = "ok" THEN res.complaints ELSE complaints
  /\ ratings' = IF res.err = "ok" THEN res.ratings ELSE ratings

\* the result of a delete that reaches no row
NoRowsDeleted ==
  [err |-> "no_rows", profiles |-> profiles, vendors |-> vendors,
   complaints |-> complaints, ratings |-> ratings]

\* profiles and vendors have policies FOR SELECT, INSERT and UPDATE and none
\* FOR DELETE
ProfileDeletePolicy(caller, row) == BypassRLS(caller)
VendorDeletePolicy(caller, row) == BypassRLS(caller)

\* DELETE FROM profiles WHERE id = old.id by caller
DeleteProfile(caller, old) ==
  /\ old \in profiles
  /\ LET res == IF ProfileDeletePolicy(caller, old)
                  THEN DeleteResult({old}, {}) ELSE NoRowsDeleted
     IN
     /\ DeleteEffect(res)
     /\ lastStmt' = Stmt("profiles", "delete", caller, res.err, old, NoRow)
  /\ UNCHANGED <<sessions, lastOp, schema, users, areas, now>>

\* DELETE FROM vendors WHERE id = old.id by caller
DeleteVendor(caller, old) ==
  /\ old \in vendors
  /\ LET res == IF VendorDeletePolicy(caller, old)
                  THEN DeleteResult({}, {old}) ELSE NoRowsDeleted
     IN
     /\ DeleteEffect(res)
     /\ lastStmt' = Stmt("vendors", "delete", caller, res.err, old, NoRow)
  /\ UNCHANGED <<sessions, lastOp, schema, users, areas, now>>

\* the removal of the identity u from auth.users by the service (the
\* administration interface of the authentication service):
\* profiles.user_id ON DELETE CASCADE
DeleteIdentity(u) ==
  /\ u \in users
  /\ LET res == DeleteResult({p \in profiles : p.user_id = u}, {}) IN
     /\ DeleteEffect(res)
     /\ users' = IF res.err = "ok" THEN users \ {u} ELSE users
     /\ lastStmt' = Stmt("users", "delete", ServiceRole, res.err,
                         [id |-> u], NoRow)
  /\ UNCHANGED <<sessions, lastOp, schema, areas, now>>

\* DELETE FROM areas WHERE id = old.id by caller: profiles.area_id has no
\* ON DELETE action
DeleteArea(caller, old) ==
  /\ old \in areas
  /\ LET err == IF ~AreaModifyPolicy(caller) THEN "no_rows"
                ELSE IF \E p \in profiles : p.area_id = old.id
                  THEN "fk_violation"
                ELSE "ok"
     IN
     /\ areas' = IF err = "ok" THEN areas \ {old} ELSE areas
     /\ lastStmt' = Stmt("areas", "delete", caller, err, old, NoRow)
  /\ UNCHANGED <<profiles, vendors, schema, users, complaints>>
  /\ UNCHANGED ratingVars

\* Profile page handleSubmit: UPDATE profiles SET area_id = area
\* WHERE user_id = u by u; formData.area_id || null
ProfileSubmit(u, area) ==
  /\ \E p \in profiles : p.user_id = u
  /\ LET old == CHOOSE p \in profiles : p.user_id = u IN
     ProfileUpdateStatement(u, old, [old EXCEPT !.area_id = area])

SignedUp == {[id |-> ProfileIdOf(u), user_id |-> u, role |-> DefaultRole,
              area_id |-> NULL, created_at |-> Epoch, updated_at |-> Epoch] :
             u \in Users}

\* the columns an UPDATE of profiles sets, <<user_id, role>>
RolePatches == {<<NULL, "authority">>, <<NULL, "admin">>, <<NULL, "consumer">>}
ProfilePatches == RolePatches \cup {<<u, Unset>> : u \in Users}
OwnerPatches == {<<NULL, "admin">>} \cup {<<u, Unset>> : u \in Users}

\* the columns an UPDATE of complaints sets, <<assigned_to, status,
\* resolved_at>>; "simple" has neither assigned_to nor resolved_at
ComplaintPatches ==
  IF schema = "roles"
    THEN {<<ProfileIdOf(2), Unset, NULL>>, <<NULL, "investigating", NULL>>,
          <<NULL, "resolved", NULL>>, <<NULL, "resolved", SomeTime>>}
    ELSE {<<NULL, "investigating", NULL>>, <<NULL, "resolved", NULL>>}

\* either schema with every identity signed up and nothing else stored
InitComplaints ==
  /\ schema \in Schemas
  /\ users = Users
  /\ profiles = SignedUp
  /\ vendors = {}
  /\ ratings = {}
  /\ areas = {}
  /\ complaints = {}
  /\ sessions = [s \in Sessions |-> IdleSession]
  /\ lastOp = NoOp
  /\ lastStmt = NoStmt
  /\ now = Epoch

NextComplaints ==
  \/ \E c \in Users, p \in profiles, x \in RolePatches :
        UpdateProfile(c, p, x[1], x[2])
  \/ \E c \in ApiCallers, p \in ProfileIds : InsertComplaint(c, p)
  \/ \E c \in ApiCallers, o \in complaints, x \in ComplaintPatches :
        UpdateComplaint(c, o, x[1], x[2], x[3])
  \/ \E c \in ApiCallers : FetchComplaints(c)

SpecComplaints == InitComplaints /\ [][NextComplaints]_vars

\* either schema with the identities of auth.users and no row
InitOwner ==
  /\ schema \in Schemas
  /\ users = Users
  /\ profiles = {}
  /\ vendors = {}
  /\ ratings = {}
  /\ areas = {}
  /\ complaints = {}
  /\ sessions = [s \in Sessions |-> IdleSession]
  /\ lastOp = NoOp
  /\ lastStmt = NoStmt
  /\ now = Epoch

NextOwner ==
  \/ \E c \in ApiCallers, u \in Users, r \in {DefaultRole, "admin"} :
        InsertProfile(c, u, r)
  \/ \E c \in ApiCallers, p \in profiles, x \in OwnerPatches :
        UpdateProfile(c, p, x[1], x[2])
  \/ \E c \in ApiCallers, p \in ProfileIds : InsertVendor(c, p)
  \/ \E c \in ApiCallers, v \in vendors, p \in ProfileIds :
        UpdateVendor(c, v, p, NULL)
  \/ \E c \in ApiCallers, p \in ProfileIds :
        Cardinality(complaints) < MaxOwnedRows /\ InsertComplaint(c, p)
  \/ \E c \in ApiCallers, v \in VendorIds, p \in ProfileIds :
        InsertRatingBy(c, v, p, 4)
  \/ \E c \in ApiCallers, r \in ratings, p \in ProfileIds :
        UpdateRatingBy(c, r, NULL, p, NULL)
  \/ \E c \in ApiCallers, r \in ratings : UpdateRatingBy(c, r, NULL, NULL, 5)

SpecOwner == InitOwner /\ [][NextOwner]_vars

\* either schema with every identity signed up and one sample area
InitAreas ==
  /\ schema \in Schemas
  /\ users = Users
  /\ profiles = SignedUp
  /\ vendors = {}
  /\ ratings = {}
  /\ areas = {[id |-> 1, name |-> "Guntur City"]}
  /\ complaints = {}
  /\ sessions = [s \in Sessions |-> IdleSession]
  /\ lastOp = NoOp
  /\ lastStmt = NoStmt
  /\ now = Epoch

NextAreas ==
  \/ \E c \in Users, p \in profiles, x \in RolePatches :
        UpdateProfile(c, p, x[1], x[2])
  \/ \E c \in ApiCallers, n \in AreaNames : InsertArea(c, n)
  \/ \E c \in ApiCallers, a \in areas, n \in AreaNames : UpdateArea(c, a, n)
  \/ \E c \in ApiCallers : FetchAreas(c)

SpecAreas == InitAreas /\ [][NextAreas]_vars

\* the schema with handle_new_user before the first sign-up
InitSignup ==
  /\ schema = "simple"
  /\ users = {}
  /\ profiles = {}
  /\ vendors = {}
  /\ ratings = {}
  /\ areas = {}
  /\ complaints = {}
  /\ sessions = [s \in Sessions |-> IdleSession]
  /\ lastOp = NoOp
  /\ lastStmt = NoStmt
  /\ now = Epoch

NextSignup ==
  \/ \E u \in Users, f \in BOOLEAN : CreateIdentity(u, f)
  \/ \E c \in ApiCallers, u \in Users, r \in {DefaultRole, "admin"} :
        InsertProfile(c, u, r)
  \/ \E c \in ApiCallers, p \in profiles, x \in ProfilePatches :
        UpdateProfile(c, p, x[1], x[2])

SpecSignup == InitSignup /\ [][NextSignup]_vars

\* an average_rating (in tenths) a caller writes into a vendors row
SomeAverage == 50

\* a rating a caller gives
SomeRating == 4

\* either schema with every identity signed up and no other row
InitRefs ==
  /\ schema \in Schemas
  /\ users = Users
  /\ profiles = SignedUp
  /\ vendors = {}
  /\ ratings = {}
  /\ areas = {}
  /\ complaints = {}
  /\ sessions = [s \in Sessions |-> IdleSession]
  /\ lastOp = NoOp
  /\ lastStmt = NoStmt
  /\ now = Epoch

\* inserts, updates and deletes of the rows that reference one another, by
\* the users and by the service
NextRefs ==
  \/ \E c \in Callers :
       Cardinality(areas) < MaxOwnedRows /\ InsertArea(c, "Guntur City")
  \/ \E c \in Callers, a \in areas : DeleteArea(c, a)
  \/ \E u \in Users, a \in AreaIds \cup {NULL} : ProfileSubmit(u, a)
  \/ \E c \in Users, p \in profiles :
       p.user_id = c /\ UpdateProfile(c, p, NULL, "admin")
  \/ \E c \in Users : InsertVendor(c, ProfileIdOf(c))
  \/ \E c \in Users, v \in VendorIds \cup {NULL} :
       /\ Cardinality(complaints) < MaxOwnedRows
       /\ InsertComplaintAbout(c, ProfileIdOf(c), v)
  \/ \E c \in Users, o \in complaints, a \in ProfileIds :
       schema = "roles" /\ UpdateComplaint(c, o, a, Unset, NULL)
  \/ \E c \in Users, v \in VendorIds :
       InsertRatingBy(c, v, ProfileIdOf(c), SomeRating)
  \/ \E c \in Users, r \in ratings : DeleteRatingBy(c, r)
  \/ \E c \in Callers, p \in profiles : DeleteProfile(c, p)
  \/ \E c \in Callers, v \in vendors : DeleteVendor(c, v)
  \/ \E u \in Users : DeleteIdentity(u)

SpecRefs == InitRefs /\ [][NextRefs]_vars

\* either schema with every identity signed up and the Vendors pages open
InitVendors ==
  /\ schema \in Schemas
  /\ users = Users
  /\ profiles = SignedUp
  /\ vendors = {}
  /\ ratings = {}
  /\ areas = {}
  /\ complaints = {}
  /\ sessions = [s \in Sessions |-> IdleSession]
  /\ lastOp = NoOp
  /\ lastStmt = NoStmt
  /\ now = Epoch

\* the Vendors pages, next to callers of the REST interface that update
\* vendors rows
NextVendors ==
  \/ \E s \in Sessions, u \in Users : VendorSubmit(s, u)
  \/ \E s \in Sessions : VendorSubmitInsert(s)
  \/ \E s \in Sessions, f \in BOOLEAN : VendorSubmitPromote(s, f)
  \/ \E c \in Users, v \in vendors : UpdateVendor(c, v, NULL, SomeAverage)

SpecVendors == InitVendors /\ [][NextVendors]_vars

\* the timestamps a statement supplies; NULL: the column is left out
SuppliedTimes == Times \cup {NULL}

\* the profiles table before the first row, with the clock running
InitTime ==
  /\ schema \in Schemas
  /\ users = Users
  /\ profiles = {}
  /\ vendors = {}
  /\ ratings = {}
  /\ areas = {}
  /\ complaints = {}
  /\ sessions = [s \in Sessions |-> IdleSession]
  /\ lastOp = NoOp
  /\ lastStmt = NoStmt
  /\ now = Epoch

NextTime ==
  \/ Tick
  \/ \E c \in Users, x \in SuppliedTimes, y \in SuppliedTimes :
        InsertProfileAt(c, c, x, y)
  \/ \E c \in Users, p \in profiles, x \in SuppliedTimes, y \in SuppliedTimes :
        UpdateProfileAt(c, p, x, y)
  \/ \E c \in Users : InsertVendor(c, ProfileIdOf(c))
  \/ \E c \in Users, v \in vendors, y \in Times : UpdateVendorAt(c, v, y)
  \/ \E c \in Users :
        Cardinality(complaints) < MaxOwnedRows /\ InsertComplaint(c, ProfileIdOf(c))
  \/ \E c \in Users, o \in complaints, y \in Times : UpdateComplaintAt(c, o, y)

SpecTime == InitTime /\ [][NextTime]_vars

\* ------------------------------------------------------------------------
\* Properties
\* ------------------------------------------------------------------------
\* the mean of the rating fields of S rounded to one decimal place, in tenths
MeanTenths(S) ==
  LET n == Cardinality(S)
      total == SumRating(S)
  IN CHOOSE t \in 0..(10 * MaxRating) :
       2 * t * n - n <= 20 * total /\ 20 * total < 2 * t * n + n

\* vendor v's stored aggregate in tables vs matches the rating rows rs
Consistent(vs, rs, v) ==
  \E x \in vs :
    /\ x.id = v
    /\ x.total_ratings = Cardinality(RatingsOf(rs, v))
    /\ x.average_rating = IF RatingsOf(rs, v) = {} THEN 0
                          ELSE MeanTenths(RatingsOf(rs, v))

\* what the rating rows rs give for vendor v, and what vendor v's row stores
Expected(rs, v) ==
  <<Cardinality(RatingsOf(rs, v)),
    IF RatingsOf(rs, v) = {} THEN 0 ELSE MeanTenths(RatingsOf(rs, v))>>
Stored(vs, v) ==
  LET x == CHOOSE y \in vs : y.id = v IN <<x.total_ratings, x.average_rating>>

HasPair(rs, v, p) == \E r \in rs : r.vendor_id = v /\ r.customer_id = p

\* this step inserted one rating row for vendor v
InsertedFor(v) ==
  \E row \in ratings' \ ratings :
    row.vendor_id = v /\ ratings' = ratings \cup {row}

\* this step changed the rating value, and nothing else, of one row of vendor v
RatingChangedFor(v) ==
  \E old \in ratings, new \in ratings' :
    /\ old.vendor_id = v
    /\ new.rating # old.rating
    /\ new = [old EXCEPT !.rating = new.rating]
    /\ ratings' = (ratings \ {old}) \cup {new}

\* this step moved one rating row from vendor v1 to vendor v2
Retargeted(v1, v2) ==
  \E old \in ratings, new \in ratings' :
    /\ old.vendor_id = v1 /\ v1 # v2
    /\ new = [old EXCEPT !.vendor_id = v2]
    /\ ratings' = (ratings \ {old}) \cup {new}

\* C1: after a rating insert for vendor V, or an update that changes only the
\* rating value of a row of V, V's total_ratings is the number of its rating
\* rows and V's average_rating their mean rounded to one decimal place.
C1_AggregateAfterInsertOrEdit ==
  [][\A v \in VendorIds :
       (InsertedFor(v) \/ RatingChangedFor(v)) => Consistent(vendors', ratings', v)]_vars

\* C2: when a recomputation leaves vendor V without rating rows (its last
\* rating was deleted or moved away), V's total_ratings is 0 and its
\* average_rating is 0.0, not null.
C2_EmptyVendorIsZero ==
  (/\ lastOp.kind \in {"delete", "update"}
   /\ lastOp.outcome = "ok"
   /\ lastOp.oldVendor # lastOp.vendor
   /\ RatingsOf(ratings, lastOp.oldVendor) = {})
  => \E x \in vendors : /\ x.id = lastOp.oldVendor
                         /\ x.total_ratings = 0
                         /\ x.average_rating = 0

\* C3: an update that changes a rating row's vendor_id from V1 to V2 leaves
\* the aggregates of V1 and of V2 both matching their current rating rows.
C3_RetargetRecomputesBoth ==
  [][\A v1, v2 \in VendorIds :
       Retargeted(v1, v2) => /\ Consistent(vendors', ratings', v1)
                             /\ Consistent(vendors', ratings', v2)]_vars

\* C4: after a rating row is deleted, the vendor the row referenced before
\* the deletion has total_ratings equal to the number of its remaining rating
\* rows and, when rows remain, average_rating equal to their rounded mean.
C4_DeleteRecomputesOldVendor ==
  (lastOp.kind = "delete" /\ lastOp.outcome = "ok")
  => \E x \in vendors :
       /\ x.id = lastOp.oldVendor
       /\ x.total_ratings = Cardinality(RatingsOf(ratings, x.id))
       /\ RatingsOf(ratings, x.id) # {}
            => x.average_rating = MeanTenths(RatingsOf(ratings, x.id))

\* a delete left its vendor with one rating row of 5: total 1, average 5.0
C4_Witness ==
  /\ lastOp.kind = "delete" /\ lastOp.outcome = "ok"
  /\ \E x \in vendors :
       /\ x.id = lastOp.oldVendor
       /\ {r.rating : r \in RatingsOf(ratings, x.id)} = {5}
       /\ x.total_ratings = 1 /\ x.average_rating = 50

\* C5: the recomputation is part of the statement that changes the rating
\* rows: no step that changes what the rating rows of a vendor give (their
\* count or rounded mean) leaves that vendor's stored total_ratings and
\* average_rating at their values from before the step.
C5_NoStaleAggregateAfterCommit ==
  [][\A x \in vendors :
       Expected(ratings', x.id) # Expected(ratings, x.id)
         => Stored(vendors', x.id) # Stored(vendors, x.id)]_vars

\* C6: in every reachable state there is at most one rating row per
\* (vendor, reviewer) pair.
C6_OneRatingPerPair ==
  \A r1, r2 \in ratings :
    (r1.vendor_id = r2.vendor_id /\ r1.customer_id = r2.customer_id) => r1 = r2

\* an insert or update was refused for the pair's uniqueness, the pair's row
\* being there
C6_Witness ==
  /\ lastOp.outcome = "unique_violation"
  /\ ratings # {}

\* C7: a submission of the rating form for a (vendor, reviewer) pair that
\* already has a rating row ends with the uniqueness error shown to the user
\* and leaves the rating rows and the vendors' aggregates unchanged.
C7_SecondSubmissionRejected ==
  [][\A s \in Sessions :
       (/\ sessions[s].pc = "inserting"
        /\ sessions'[s].pc = "form"
        /\ HasPair(ratings, sessions[s].vendor_id, sessions[s].profile))
       => /\ sessions'[s].outcome = "unique_violation"
          /\ ratings' = ratings
          /\ vendors' = vendors]_vars

\* a page's submission was refused for uniqueness while the pair's row and
\* an aggregate counting it are there
C7_Witness ==
  \E s \in Sessions :
    /\ sessions[s].pc = "form"
    /\ sessions[s].outcome = "unique_violation"
    /\ HasPair(ratings, sessions[s].vendor_id, sessions[s].profile)
    /\ \E x \in vendors : x.id = sessions[s].vendor_id /\ x.total_ratings = 1

\* C8: two submissions of the rating form for the same (vendor, reviewer)
\* pair that overlapped end with exactly one rating row for the pair, at most
\* one of them successful, and the vendor's aggregate matching its rows.
C8_ConcurrentSubmissions ==
  \A s, t \in Sessions :
    (/\ s # t
     /\ sessions[s].pc = "form" /\ sessions[t].pc = "form"
     /\ sessions[s].raced /\ sessions[t].raced
     /\ SamePair(sessions[s], sessions[t])
     /\ "success" \in {sessions[s].outcome, sessions[t].outcome})
    => /\ Cardinality({r \in ratings : /\ r.vendor_id = sessions[s].vendor_id
                                        /\ r.customer_id = sessions[s].profile}) = 1
       /\ {sessions[s].outcome, sessions[t].outcome} = {"success", "unique_violation"}
       /\ Consistent(vendors, ratings, sessions[s].vendor_id)

SubRatingsOf(r) == <<r.food_quality_rating, r.price_rating, r.hygiene_rating>>

\* C10: every stored rating has its overall rating in 1..5 and each of its
\* three sub-ratings null or in 1..5, and the row of a successful submission
\* of the rating form holds null for each sub-rating the form left unset (0)
\* and the form's value for the others.
C10_StoredRatingsInRange ==
  /\ \A r \in ratings :
       /\ r.rating \in MinRating..MaxRating
       /\ \A k \in 1..3 :
            SubRatingsOf(r)[k] = NULL \/ SubRatingsOf(r)[k] \in MinRating..MaxRating
  /\ \A s \in Sessions :
       sessions[s].outcome = "success"
       => \E r \in ratings :
            /\ r.vendor_id = sessions[s].vendor_id
            /\ r.customer_id = sessions[s].profile
            /\ r.rating = sessions[s].rating
            /\ \A k \in 1..3 :
                 SubRatingsOf(r)[k] = IF sessions[s].subs[k] = 0 THEN NULL
                                      ELSE sessions[s].subs[k]

\* a successful submission with one sub-rating unset and two set is stored
C10_Witness ==
  \E s \in Sessions :
    /\ sessions[s].outcome = "success"
    /\ sessions[s].subs = <<3, 0, 5>>
    /\ \E r \in ratings :
         /\ r.vendor_id = sessions[s].vendor_id
         /\ r.customer_id = sessions[s].profile
         /\ SubRatingsOf(r) = <<3, NULL, 5>>

\* ------------------------------------------------------------------------
\* Properties of the access rules
\* ------------------------------------------------------------------------
\* the caller's profile has role authority or admin
Elevated(caller) ==
  \E p \in profiles : p.user_id = caller /\ p.role \in {"authority", "admin"}

\* the caller's identity is the user_id of the profile with id pid
IsOwnerOf(caller, pid) ==
  \E p \in profiles : p.id = pid /\ p.user_id = caller

\* this step is the statement `kind` on `table`
StepOf(table, kind) ==
  lastStmt'.table = table /\ lastStmt'.kind = kind

\* C11: an update of a complaint by a caller who is not its complainant, is
\* not assigned to it and has neither role authority nor admin is rejected
\* with an authorization error, and the complaints rows are unchanged.
C11_OutsiderUpdateRejected ==
  [][(/\ StepOf("complaints", "update")
      /\ ~IsOwnerOf(lastStmt'.caller, lastStmt'.old.complainant_id)
      /\ ~IsOwnerOf(lastStmt'.caller, lastStmt'.old.assigned_to)
      /\ ~Elevated(lastStmt'.caller))
     => /\ lastStmt'.outcome = "rls_violation"
        /\ complaints' = complaints]_vars

\* C12: an update of a complaint by the owner of its complainant profile is
\* carried out, and so is one by a caller with role authority or admin.
C12_ComplainantOrElevatedMayUpdate ==
  [][(/\ StepOf("complaints", "update")
      /\ \/ IsOwnerOf(lastStmt'.caller, lastStmt'.old.complainant_id)
         \/ Elevated(lastStmt'.caller))
     => /\ lastStmt'.outcome = "ok"
        /\ lastStmt'.new \in complaints']_vars

\* the complaints a caller may read under the role-based rule
MayRead(caller, c) ==
  \/ IsOwnerOf(caller, c.complainant_id)
  \/ IsOwnerOf(caller, c.assigned_to)
  \/ Elevated(caller)

\* every row a complaints row with the id of c can be
VariantsOf(c) ==
  [id : {c.id}, complainant_id : ProfileIds,
   vendor_id : VendorIds \cup {NULL}, assigned_to : ProfileIds \cup {NULL},
   status : StatusesOf(schema), resolved_at : {NULL, SomeTime},
   updated_at : Times]

C20_ResolvedAtIffTerminal ==
  schema = "roles"
  => \A c \in complaints :
       (c.resolved_at # NULL) <=> (c.status \in {"resolved", "dismissed"})

\* the tables whose rows belong to a profile
OwnedTables == {"profiles", "vendors", "complaints", "ratings"}

\* the owner reference of the row a statement presents resolves to its
\* caller: user_id is the caller, or profile_id, complainant_id, customer_id
\* is the id of a profile whose user_id is the caller
OwnerIsCaller(stmt) ==
  IF stmt.table = "profiles" THEN stmt.new.user_id = stmt.caller
  ELSE IF stmt.table = "vendors"
    THEN IsOwnerOf(stmt.caller, stmt.new.profile_id)
  ELSE IF stmt.table = "complaints"
    THEN IsOwnerOf(stmt.caller, stmt.new.complainant_id)
  ELSE IsOwnerOf(stmt.caller, stmt.new.customer_id)

\* C14: an insert into profiles, vendors, complaints or ratings is accepted
\* only if the row's owner reference resolves to the caller; otherwise no
\* row is inserted.
C14_InsertOnlyForOneself ==
  [][(lastStmt'.kind = "insert" /\ lastStmt'.table \in OwnedTables)
     => /\ lastStmt'.outcome = "ok" => OwnerIsCaller(lastStmt')
        /\ ~OwnerIsCaller(lastStmt')
           => /\ lastStmt'.outcome # "ok"
              /\ <<profiles, vendors, complaints, ratings>>'
                   = <<profiles, vendors, complaints, ratings>>]_vars

\* a caller with a profile of their own presented a complaint in the name of
\* another identity's profile and was refused
C14_Witness ==
  /\ lastStmt.kind = "insert" /\ lastStmt.table = "complaints"
  /\ lastStmt.outcome = "rls_violation"
  /\ \E p \in profiles : p.user_id = lastStmt.caller
  /\ \E p \in profiles : /\ p.id = lastStmt.new.complainant_id
                          /\ p.user_id # lastStmt.caller

\* the caller of this step owns the profiles row p, the vendors row v, the
\* ratings row r
OwnsProfileRow(caller, p) == p.user_id = caller
OwnsVendorRow(caller, v) == IsOwnerOf(caller, v.profile_id)
OwnsRatingRow(caller, r) == IsOwnerOf(caller, r.customer_id)

\* C15: a profiles, vendors or ratings row is changed only by a statement of
\* its owner: a statement of any other caller, whatever the caller's role,
\* leaves the row as it was (the row is still in its table).
C15_UpdateOnlyByOwner ==
  [][/\ \A p \in profiles :
          ~OwnsProfileRow(lastStmt'.caller, p) => p \in profiles'
     /\ \A v \in vendors :
          ~OwnsVendorRow(lastStmt'.caller, v) => v \in vendors'
     /\ \A r \in ratings :
          ~OwnsRatingRow(lastStmt'.caller, r) => r \in ratings']_vars

\* a caller with role admin sent an update of another identity's profile
C15_Witness ==
  /\ lastStmt.kind = "update" /\ lastStmt.table = "profiles"
  /\ Elevated(lastStmt.caller)
  /\ lastStmt.old.user_id # lastStmt.caller
  /\ lastStmt.old \in profiles

\* C16: an areas row is inserted or updated only by a caller whose profile
\* has role admin, any other caller's insert or update leaves the areas as
\* they were, and a fetch returns every area to every caller.
C16_AreasAdminOnly ==
  [][/\ areas' # areas => HasRole(lastStmt'.caller, {"admin"})
     /\ (lastStmt'.table = "areas" /\ lastStmt'.kind \in {"insert", "update"}
         /\ ~HasRole(lastStmt'.caller, {"admin"}))
        => areas' = areas
     /\ StepOf("areas", "select") => lastStmt'.new.seen = areas]_vars

\* after an admin added an area, a signed-up caller without role admin sent
\* an insert or update of areas
C16_Witness ==
  /\ lastStmt.table = "areas" /\ lastStmt.kind \in {"insert", "update"}
  /\ lastStmt.outcome # "ok"
  /\ lastStmt.caller \in Users
  /\ ~HasRole(lastStmt.caller, {"admin"})
  /\ Cardinality(areas) = MaxAreas

\* C17: an update addressed to a profiles, vendors or ratings row the caller
\* does not own ends in an authorization error; it never completes without
\* an error having changed nothing.
C17_ForeignWriteIsAnError ==
  [][(/\ lastStmt'.kind = "update"
      /\ \/ /\ lastStmt'.table = "profiles"
            /\ ~OwnsProfileRow(lastStmt'.caller, lastStmt'.old)
         \/ /\ lastStmt'.table = "vendors"
            /\ ~OwnsVendorRow(lastStmt'.caller, lastStmt'.old)
         \/ /\ lastStmt'.table = "ratings"
            /\ ~OwnsRatingRow(lastStmt'.caller, lastStmt'.old))
     => lastStmt'.outcome = "rls_violation"]_vars

\* the profiles of identity u
ProfilesOf(ps, u) == {p \in ps : p.user_id = u}

C19_ProvisioningErrorNotPropagated ==
  [][(StepOf("users", "insert") /\ ProfilesOf(profiles', lastStmt'.new.id) = {})
     => /\ lastStmt'.new.id \in users'
        /\ lastStmt'.outcome = "ok"]_vars

\* ------------------------------------------------------------------------
\* Properties of status, roles and ownership
\* ------------------------------------------------------------------------
\* how far a complaint status is along pending, investigating, terminal
StatusRank(s) ==
  IF s = "pending" THEN 0 ELSE IF s = "investigating" THEN 1 ELSE 2

\* C21: a complaint starts in status pending, and no update moves its status
\* back to an earlier one or out of a terminal one (resolved, dismissed,
\* rejected).
C21_StatusOnlyForward ==
  [][/\ \A c \in complaints' :
          (~\E o \in complaints : o.id = c.id) => c.status = "pending"
     /\ \A o \in complaints, c \in complaints' :
          o.id = c.id
          => /\ StatusRank(c.status) >= StatusRank(o.status)
             /\ StatusRank(o.status) = 2 => c.status = o.status]_vars

\* a profile of identity u in the table ps has role authority or admin
ElevatedIn(ps, u) ==
  \E p \in ps : p.user_id = u /\ p.role \in {"authority", "admin"}

\* C26: no statement of an API caller gives an identity whose profile has
\* role consumer or vendor, or that has no profile, a profile with role
\* authority or admin.
C26_NoSelfPromotion ==
  [][\A u \in Users : ~ElevatedIn(profiles, u) => ~ElevatedIn(profiles', u)]_vars

\* C28: a rating inserted by an identity that does not own the rated vendor
\* leaves that vendor with total_ratings and average_rating as its rating
\* rows give them.
C28_RecomputationForAnyCaller ==
  [][\A x \in vendors :
       (/\ lastOp'.kind = "insert" /\ lastOp'.outcome = "ok"
        /\ lastOp'.vendor = x.id
        /\ lastOp'.caller \in Users
        /\ ~VendorUpdatePolicy(lastOp'.caller, x))
       => Stored(vendors', x.id) = Expected(ratings', x.id)]_vars

\* C29: no update that is carried out gives a ratings row a customer_id, or
\* a vendors row a profile_id, of a profile the caller does not own, or a
\* profiles row another user_id.
C29_NoOwnershipTransfer ==
  [][(lastStmt'.kind = "update" /\ lastStmt'.outcome = "ok")
     => /\ lastStmt'.table = "profiles"
           => lastStmt'.new.user_id = lastStmt'.old.user_id
        /\ lastStmt'.table = "vendors"
           => IsOwnerOf(lastStmt'.caller, lastStmt'.new.profile_id)
        /\ lastStmt'.table = "ratings"
           => IsOwnerOf(lastStmt'.caller, lastStmt'.new.customer_id)]_vars

\* the owner of a vendor sent an update that gives it the profile of another
\* identity and was refused
C29_Witness ==
  /\ lastStmt.kind = "update" /\ lastStmt.table = "vendors"
  /\ lastStmt.outcome = "rls_violation"
  /\ IsOwnerOf(lastStmt.caller, lastStmt.old.profile_id)
  /\ lastStmt.old \in vendors

\* the tables whose rows have the BEFORE UPDATE trigger on updated_at
StampedTables == {"profiles", "vendors", "complaints"}

\* this step is an update of a row of a stamped table that was carried out
StampedUpdate ==
  /\ lastStmt'.table \in StampedTables /\ lastStmt'.kind = "update"
  /\ lastStmt'.outcome = "ok"
  /\ now' = now

\* C24 as claimed: an update of a profiles, vendors or complaints row sets
\* its updated_at to the time of the update whatever the statement supplied,
\* and so the updated_at of a row never decreases and is never earlier than
\* its created_at (created_at is a column of the model's profiles rows).
C24_UpdatedAtMonotone ==
  [][/\ StampedUpdate => lastStmt'.new.updated_at = now
     /\ \A o \in profiles, p \in profiles' :
          o.id = p.id => p.updated_at >= o.updated_at
     /\ \A p \in profiles' : p.updated_at >= p.created_at]_vars

\* C24 as amended: an update of a profiles, vendors or complaints row sets
\* its updated_at to the time of the update, whatever updated_at value the
\* statement supplied.
C24_UpdatedAtIsTimeOfUpdate ==
  [][StampedUpdate => lastStmt'.new.updated_at = now]_vars

\* an update was carried out on a row whose updated_at was not the current
\* time, after the clock had moved on
C24_Witness ==
  /\ lastStmt.table \in StampedTables /\ lastStmt.kind = "update"
  /\ lastStmt.outcome = "ok"
  /\ now > Epoch
  /\ lastStmt.old.updated_at # now
  /\ lastStmt.new.updated_at = now

\* the Vendors page s ends its handleSubmit with the success toast in this
\* step
ReportsSuccess(s) ==
  /\ sessions[s].pc = "updating"
  /\ sessions'[s].pc = "form"
  /\ sessions'[s].outcome = "success"

\* C25: when a vendor registration completes and reports success, the
\* profile that owns the vendor has role (user_type) vendor; a role update
\* that failed is not reported as success.
C25_SuccessMeansVendorRole ==
  [][\A s \in Sessions :
       ReportsSuccess(s)
       => /\ lastStmt'.outcome = "ok"
          /\ \E p \in profiles' : /\ p.id = sessions[s].profile
                                   /\ p.role = "vendor"]_vars

\* C27: a registration of a vendor stores the defaults in average_rating
\* and total_ratings, and an update of a vendors row sent by a caller leaves
\* the two columns as they were: they change with the rating rows only.
C27_AggregateNotWritable ==
  [][(lastStmt'.table = "vendors" /\ lastStmt'.outcome = "ok")
     => /\ lastStmt'.kind = "insert"
           => /\ lastStmt'.new.average_rating = DefaultAverageRating
              /\ lastStmt'.new.total_ratings = DefaultTotalRatings
        /\ lastStmt'.kind = "update"
           => /\ lastStmt'.new.average_rating = lastStmt'.old.average_rating
              /\ lastStmt'.new.total_ratings = lastStmt'.old.total_ratings]_vars

\* C22: in every state every foreign key that is not null (area_id,
\* vendor_id, complainant_id, assigned_to, profile_id, reviewer_id /
\* customer_id, and user_id) references a row that exists: no insert, update
\* or delete leaves a dangling reference.
C22_NoDanglingReference ==
  /\ \A p \in profiles :
       /\ p.user_id \in users
       /\ p.area_id # NULL => \E a \in areas : a.id = p.area_id
  /\ \A v \in vendors : \E p \in profiles : p.id = v.profile_id
  /\ \A c \in complaints :
       /\ \E p \in profiles : p.id = c.complainant_id
       /\ c.vendor_id # NULL => \E v \in vendors : v.id = c.vendor_id
       /\ c.assigned_to # NULL => \E p \in profiles : p.id = c.assigned_to
  /\ \A r \in ratings :
       /\ \E v \in vendors : v.id = r.vendor_id
       /\ \E p \in profiles : p.id = r.customer_id

\* C22 witness: a delete of a profile or of a vendor has removed its row
\* while complaints or ratings remain in the tables.
C22_Witness ==
  /\ lastStmt.kind = "delete"
  /\ lastStmt.table \in {"profiles", "vendors", "users"}
  /\ lastStmt.outcome = "ok"
  /\ complaints # {}
  /\ \E p \in profiles : p.area_id # NULL

\* the rows of the profile pid: its vendors, the complaints it filed, the
\* ratings it gave and the ratings of its vendors
OwnedBy(pid, vs, cs, rs) ==
  [vendors |-> {v \in vs : v.profile_id = pid},
   complaints |-> {c \in cs : c.complainant_id = pid},
   ratings |-> {r \in rs : \/ r.customer_id = pid
                            \/ \E v \in vs : v.profile_id = pid /\ v.id = r.vendor_id}]

\* C23: a delete that reaches a profile succeeds and removes the profile
\* with the vendors, complaints and ratings it owns; a delete that reaches a
\* vendor succeeds and leaves the complaints about it in the table with
\* vendor_id null.
C23_DeleteCascades ==
  [][/\ (StepOf("profiles", "delete") /\ lastStmt'.outcome # "no_rows")
        => /\ lastStmt'.outcome = "ok"
           /\ lastStmt'.old \notin profiles'
           /\ OwnedBy(lastStmt'.old.id, vendors', complaints', ratings')
                = [vendors |-> {}, complaints |-> {}, ratings |-> {}]
     /\ (StepOf("vendors", "delete") /\ lastStmt'.outcome # "no_rows")
        => /\ lastStmt'.outcome = "ok"
           /\ lastStmt'.old \notin vendors'
           /\ \A c \in complaints :
                c.vendor_id = lastStmt'.old.id
                => \E d \in complaints' : d.id = c.id /\ d.vendor_id = NULL]_vars

\* this step deletes a profile, a vendor or an identity
DeletesOwner ==
  /\ lastStmt'.kind = "delete"
  /\ lastStmt'.table \in {"profiles", "vendors", "users"}

\* C30: a DELETE on ratings by a user, the author of the rating and users
\* with role authority or admin included, removes no row; unless the step
\* deletes a profile, a vendor or an identity, the number of ratings rows
\* does not decrease.
C30_NoDirectRatingDelete ==
  [][/\ (StepOf("ratings", "delete") /\ lastStmt'.caller \in ApiCallers)
        => /\ ratings' = ratings
           /\ lastStmt'.outcome = "no_rows"
     /\ ~DeletesOwner => Cardinality(ratings') >= Cardinality(ratings)]_vars

\* C30 witness: the author of a rating, a user with role admin, has sent a
\* DELETE for it and the row is still in the table.
C30_Witness ==
  /\ lastStmt.table = "ratings"
  /\ lastStmt.kind = "delete"
  /\ lastStmt.old \in ratings
  /\ OwnsProfile(lastStmt.caller, lastStmt.old.customer_id)
  /\ HasRole(lastStmt.caller, {"admin"})

====
